---- MODULE Spec2Model ----
(***************************************************************************)
(* mcp_toolgen: tool specifications generated from a GraphQL introspection *)
(* document or from a protobuf descriptor set.                             *)
(*                                                                         *)
(* Python values are modelled as follows.  A dict is a function whose      *)
(* domain is its key set (a missing key and a JSON null both read as None  *)
(* through d.get(k), so both are a key outside the domain).  A list is a   *)
(* sequence.  A string whose characters the code inspects (descriptions,   *)
(* method names, fully-qualified type names) is a sequence of              *)
(* one-character strings; a string that is only compared or used as a key  *)
(* is a TLA+ string.  A call that raises returns [raise |-> <exception>].  *)
(***************************************************************************)
EXTENDS Integers, Sequences, FiniteSets, TLC

VARIABLES
    call,       \* the function this behaviour exercises
    arg,        \* its arguments
    pc,         \* position inside the running function
    schema,     \* generate_tools_from_graphql: the loaded introspection document
    idx,        \* generate_tools_from_graphql: the type index
    fns,        \* generate_tools_from_graphql: the tool records built so far
    desc_set,   \* generate_tools_from_proto: the parsed descriptor set
    fd_index,   \* generate_tools_from_proto: the type index
    out,        \* generate_tools_from_proto: the tool records built so far
    iter,       \* position of the running for-loops
    io,         \* files opened and HTTP requests issued, in order
    stack,      \* _to_schema: the frames of the calls in progress, innermost last
    scalar_map, \* the module's _SCALAR_MAP table, as it is now
    ret         \* the value returned, or the exception raised

vars ==
    <<call, arg, pc, schema, idx, fns, desc_set, fd_index, out, iter, io, stack,
      scalar_map, ret>>

\* Bounds of the explored inputs.
MaxWrap == 2        \* wrapper (NON_NULL / LIST) nesting depth of a drawn type reference
MaxFields == 2      \* length of a drawn args / inputFields list
MaxDesc == 2        \* length of a drawn description
MaxName == 3        \* length of a drawn method name
MaxRootFields == 2  \* length of a drawn root type's fields list
MaxServices == 2    \* length of a drawn file's service list
MaxDepth == 9       \* calls of _to_schema in progress before RecursionError
MaxCalls == 2       \* invocations of generate_tools_from_graphql in a row

-----------------------------------------------------------------------------
\* Python plumbing

Unset == [unset |-> TRUE]

KeyError == [raise |-> "KeyError"]

ValueError == [raise |-> "ValueError"]

RuntimeError == [raise |-> "RuntimeError"]

RecursionError == [raise |-> "RecursionError"]

Raised(r) == "raise" \in DOMAIN r

\* d[k] = v
Put(d, k, v) == [x \in (DOMAIN d) \cup {k} |-> IF x = k THEN v ELSE d[x]]

\* d.get(k) is truthy: the key is there and its string is not empty
Truthy(d, k) == k \in DOMAIN d /\ d[k] # <<>>

IsSpace(c) == c = " "

RECURSIVE LStrip(_)
LStrip(s) == IF s # <<>> /\ IsSpace(Head(s)) THEN LStrip(Tail(s)) ELSE s

RECURSIVE RStrip(_)
RStrip(s) ==
    IF s # <<>> /\ IsSpace(s[Len(s)]) THEN RStrip(SubSeq(s, 1, Len(s) - 1)) ELSE s

\* str.strip()
Strip(s) == RStrip(LStrip(s))

-----------------------------------------------------------------------------
\* GraphQL helpers

_SCALAR_MAP ==
    [Int |-> [type |-> "integer"],
     Float |-> [type |-> "number"],
     String |-> [type |-> "string"],
     Boolean |-> [type |-> "boolean"],
     ID |-> [type |-> "string"]]

\* {t["name"]: t for t in types}: a later type of the same name replaces an earlier one
_gql_type_index(doc) ==
    LET types == doc.data.__schema.types
    IN  [n \in {types[i].name : i \in DOMAIN types} |->
            types[CHOOSE i \in DOMAIN types :
                    /\ types[i].name = n
                    /\ \A j \in DOMAIN types : types[j].name = n => j <= i]]

\* t.get("kind")
KindOf(t) == IF "kind" \in DOMAIN t THEN t.kind ELSE "None"

\* a bug: NON_NULL items of a list also count
IsNonnullThroughList(t) ==
    \/ KindOf(t) = "NON_NULL"
    \/ KindOf(t) = "LIST" /\ "ofType" \in DOMAIN t /\ KindOf(t.ofType) = "NON_NULL"

_is_nonnull(t) == KindOf(t) = "NON_NULL"

RECURSIVE _to_schema(_, _)
RECURSIVE InputFieldsLoop(_, _, _, _)

\* a bug: the schema records the nullability
ToSchemaNonNullMarked(t, index) ==
    IF "ofType" \notin DOMAIN t THEN KeyError
    ELSE LET s == _to_schema(t.ofType, index)
         IN  IF Raised(s) THEN s ELSE Put(s, "nullable", FALSE)

\* kind == "NON_NULL"
ToSchemaNonNull(t, index) ==
    IF "ofType" \in DOMAIN t THEN _to_schema(t.ofType, index) ELSE KeyError

\* kind == "LIST"
ToSchemaList(t, index) ==
    IF "ofType" \notin DOMAIN t THEN KeyError
    ELSE LET items == _to_schema(t.ofType, index)
         IN  IF Raised(items) THEN items ELSE [type |-> "array", items |-> items]

\* kind == "SCALAR"
ToSchemaScalar(t) ==
    IF t.name \in DOMAIN _SCALAR_MAP THEN _SCALAR_MAP[t.name] ELSE [type |-> "string"]

\* kind == "ENUM"
ToSchemaEnum(t, index) ==
    IF t.name \notin DOMAIN index THEN KeyError
    ELSE LET values == index[t.name].enumValues
         IN  [type |-> "string", enum |-> [i \in 1..Len(values) |-> values[i].name]]

\* the for-loop over inputFields: the rest of the list, props and req so far
InputFieldsLoop(fields, index, props, req) ==
    IF fields = <<>> THEN [props |-> props, req |-> req]
    ELSE LET f == Head(fields)
             s == _to_schema(f.type, index)
         IN  IF Raised(s) THEN s
             ELSE InputFieldsLoop(
                    Tail(fields), index,
                    Put(props, f.name,
                        IF Truthy(f, "description")
                        THEN Put(s, "description", f.description) ELSE s),
                    IF _is_nonnull(f.type) THEN Append(req, f.name) ELSE req)

\* kind == "INPUT_OBJECT"
ToSchemaInputObject(t, index) ==
    IF t.name \notin DOMAIN index THEN KeyError
    ELSE LET r == InputFieldsLoop(index[t.name].inputFields, index, <<>>, <<>>)
         IN  IF Raised(r) THEN r
             ELSE IF r.req # <<>>
                  THEN [type |-> "object", properties |-> r.props, required |-> r.req]
                  ELSE [type |-> "object", properties |-> r.props]

_to_schema(t, index) ==
    LET kind == KindOf(t)
    IN  IF kind = "NON_NULL" THEN ToSchemaNonNull(t, index)
        ELSE IF kind = "LIST" THEN ToSchemaList(t, index)
        ELSE IF kind = "SCALAR" THEN ToSchemaScalar(t)
        ELSE IF kind = "ENUM" THEN ToSchemaEnum(t, index)
        ELSE IF kind = "INPUT_OBJECT" THEN ToSchemaInputObject(t, index)
        ELSE [type |-> "string"]

-----------------------------------------------------------------------------
\* Drawn GraphQL inputs

NonNull(t) == [kind |-> "NON_NULL", ofType |-> t]

List(t) == [kind |-> "LIST", ofType |-> t]

Named(kind, name) == [kind |-> kind, name |-> name]

\* A wrapper the introspection query cut off below its third ofType: no ofType key.
CutOff == [kind |-> "LIST"]

LeafRefs ==
    {Named("SCALAR", n) : n \in {"Int", "String", "Date"}}
    \cup {Named("ENUM", n) : n \in {"Color", "Gone"}}
    \cup {Named("INPUT_OBJECT", n) : n \in {"In", "Gone"}}
    \cup {Named("OBJECT", "User"), CutOff}

RECURSIVE RefsUpTo(_)
RefsUpTo(d) ==
    IF d = 0 THEN LeafRefs
    ELSE LET R == RefsUpTo(d - 1)
         IN  R \cup {NonNull(r) : r \in R} \cup {List(r) : r \in R}

\* args and inputFields entries (__InputValue)
InputValuePool ==
    {[name |-> "a", type |-> NonNull(Named("SCALAR", "String")), description |-> <<"d">>],
     [name |-> "b", type |-> Named("SCALAR", "Int")],
     [name |-> "a", type |-> List(NonNull(Named("SCALAR", "String"))), description |-> <<>>],
     [name |-> "c", type |-> NonNull(List(Named("SCALAR", "String")))],
     [name |-> "n", type |-> NonNull(Named("INPUT_OBJECT", "In2"))],
     [name |-> "e", type |-> Named("ENUM", "Color")]}

RECURSIVE SeqsUpTo(_, _)
SeqsUpTo(S, n) ==
    IF n = 0 THEN {<<>>}
    ELSE LET P == SeqsUpTo(S, n - 1)
         IN  P \cup {Append(p, x) : p \in P, x \in S}

ColorEnum ==
    [kind |-> "ENUM", name |-> "Color",
     enumValues |-> <<[name |-> "RED"], [name |-> "BLUE"]>>]

InputType(name, fields) == [kind |-> "INPUT_OBJECT", name |-> name, inputFields |-> fields]

In2Type ==
    InputType("In2",
        <<[name |-> "x", type |-> NonNull(Named("SCALAR", "Boolean"))],
          [name |-> "y", type |-> Named("SCALAR", "ID"), description |-> <<"d">>]>>)

Document(types) == [data |-> [__schema |-> [types |-> types]]]

\* the non-root types of a drawn document
TypeLists ==
    {e \o i \o <<In2Type>> :
        e \in {<<>>, <<ColorEnum>>},
        i \in {<<>>} \cup {<<InputType("In", fs)>> : fs \in SeqsUpTo(InputValuePool, MaxFields)}}

-----------------------------------------------------------------------------
\* _build_fn

Executes == <<"E", "x", "e", "c", "u", "t", "e", "s", " ">>

RECURSIVE ArgsLoop(_, _, _, _)
\* the for-loop over field.get("args", []): the rest of the list, props and req so far
ArgsLoop(args, index, props, req) ==
    IF args = <<>> THEN [props |-> props, req |-> req]
    ELSE LET a == Head(args)
             s == _to_schema(a.type, index)
         IN  IF Raised(s) THEN s
             ELSE ArgsLoop(
                    Tail(args), index,
                    Put(props, a.name,
                        IF Truthy(a, "description")
                        THEN Put(s, "description", a.description) ELSE s),
                    IF _is_nonnull(a.type) THEN Append(req, a.name) ELSE req)

\* a bug: the dialect does not reach the key
ParamsKeyOpenaiOnly(fmt) == "parameters"

\* "parameters" if fmt == "openai" else "input_schema"
ParamsKey(fmt) == IF fmt = "openai" THEN "parameters" ELSE "input_schema"

\* (field.get("description") or f"Executes {field['name']}").strip()
FieldDescription(field) ==
    Strip(IF Truthy(field, "description") THEN field.description
          ELSE Executes \o field.name)

_build_fn(field, index, fmt) ==
    LET r == ArgsLoop(IF "args" \in DOMAIN field THEN field.args ELSE <<>>,
                      index, <<>>, <<>>)
    IN  IF Raised(r) THEN r
        ELSE LET params ==
                    IF r.req # <<>>
                    THEN [type |-> "object", properties |-> r.props, required |-> r.req]
                    ELSE [type |-> "object", properties |-> r.props]
             IN  Put([name |-> field.name, description |-> FieldDescription(field)],
                     ParamsKey(fmt), params)

\* Drawn root fields
Descriptions == SeqsUpTo({" ", "d"}, MaxDesc)

FieldNames == {<<"f">>, <<"g", "o">>}

DrawnFields ==
    LET bare == [name : FieldNames, args : SeqsUpTo(InputValuePool, MaxFields)]
    IN  bare \cup {Put(f, "description", d) : f \in bare, d \in Descriptions}
             \cup {[name |-> n] : n \in FieldNames}

-----------------------------------------------------------------------------
\* _rpc_fn_name

Uppers ==
    <<"A", "B", "C", "D", "E", "F", "G", "H", "I", "J", "K", "L", "M",
      "N", "O", "P", "Q", "R", "S", "T", "U", "V", "W", "X", "Y", "Z">>

Lowers ==
    <<"a", "b", "c", "d", "e", "f", "g", "h", "i", "j", "k", "l", "m",
      "n", "o", "p", "q", "r", "s", "t", "u", "v", "w", "x", "y", "z">>

\* [A-Z]
IsUpper(c) == \E i \in DOMAIN Uppers : Uppers[i] = c

LowerChar(c) == IF IsUpper(c) THEN Lowers[CHOOSE i \in DOMAIN Uppers : Uppers[i] = c] ELSE c

\* str.lower()
Lower(s) == [i \in 1..Len(s) |-> LowerChar(s[i])]

\* a bug: the lookbehind (?<!^) is dropped, so the first character matches too
RECURSIVE ReSub(_, _)
ReSubAlsoAtStart(s, p) ==
    IF p > Len(s) THEN <<>>
    ELSE (IF IsUpper(s[p]) THEN <<"_">> ELSE <<>>) \o <<s[p]>> \o ReSub(s, p + 1)

\* re.sub(r"(?<!^)(?=[A-Z])", "_", s) from position p on: "_" goes in at every
\* position that is not the start of the string and is followed by [A-Z]
ReSub(s, p) ==
    IF p > Len(s) THEN <<>>
    ELSE (IF p # 1 /\ IsUpper(s[p]) THEN <<"_">> ELSE <<>>) \o <<s[p]>> \o ReSub(s, p + 1)

_rpc_fn_name(rpc) == Lower(ReSub(rpc, 1))

GetUserProfile == <<"G", "e", "t", "U", "s", "e", "r", "P", "r", "o", "f", "i", "l", "e">>

Ping == <<"P", "i", "n", "g">>

\* Drawn method names: identifier characters, and the two documented names
MethodNames == SeqsUpTo({"G", "U", "e", "_", "1"}, MaxName) \cup {GetUserProfile, Ping}

-----------------------------------------------------------------------------
\* The helpers applied to drawn arguments

NoLocals ==
    /\ schema = Unset /\ idx = Unset /\ fns = Unset
    /\ desc_set = Unset /\ fd_index = Unset /\ out = Unset /\ iter = Unset
    /\ io = <<>>
    /\ stack = <<>>
    /\ scalar_map = _SCALAR_MAP
    /\ ret = Unset

InitResolve ==
    /\ call = "_to_schema"
    /\ arg \in [t : RefsUpTo(MaxWrap), doc : {Document(ts) : ts \in TypeLists}]
    /\ pc = "call"
    /\ NoLocals

InitBuildFn ==
    /\ call = "_build_fn"
    /\ arg \in [field : DrawnFields,
                doc : {Document(e \o i) : e \in {<<>>, <<ColorEnum>>},
                                          i \in {<<>>, <<In2Type>>}},
                fmt : {"openai", "claude"}]
    /\ pc = "call"
    /\ NoLocals

InitRpcFnName ==
    /\ call = "_rpc_fn_name"
    /\ arg \in [rpc : MethodNames]
    /\ pc = "call"
    /\ NoLocals

InitFn == InitResolve \/ InitBuildFn \/ InitRpcFnName

Resolve ==
    /\ call = "_to_schema" /\ pc = "call"
    /\ idx' = _gql_type_index(arg.doc)
    /\ ret' = _to_schema(arg.t, idx')
    /\ pc' = "done"
    /\ UNCHANGED <<call, arg, schema, fns, desc_set, fd_index, out, iter, io>>
    /\ UNCHANGED <<stack, scalar_map>>

BuildFn ==
    /\ call = "_build_fn" /\ pc = "call"
    /\ idx' = _gql_type_index(arg.doc)
    /\ ret' = _build_fn(arg.field, idx', arg.fmt)
    /\ pc' = "done"
    /\ UNCHANGED <<call, arg, schema, fns, desc_set, fd_index, out, iter, io>>
    /\ UNCHANGED <<stack, scalar_map>>

RpcFnName ==
    /\ call = "_rpc_fn_name" /\ pc = "call"
    /\ ret' = [value |-> _rpc_fn_name(arg.rpc)]
    /\ pc' = "done"
    /\ UNCHANGED <<call, arg, schema, idx, fns, desc_set, fd_index, out, iter, io>>
    /\ UNCHANGED <<stack, scalar_map>>

NextFn == Resolve \/ BuildFn \/ RpcFnName

SpecFn == InitFn /\ [][NextFn]_vars

-----------------------------------------------------------------------------
\* _to_schema, call by call

\* the frame of a call _to_schema(t, index) as it starts: for an INPUT_OBJECT
\* the inputFields the loop has yet to visit, props and req; sub is what the
\* nested call of a wrapper returned
Frame(t, index) ==
    [t |-> t,
     fields |-> IF KindOf(t) = "INPUT_OBJECT" /\ t.name \in DOMAIN index
                THEN index[t.name].inputFields ELSE <<>>,
     props |-> <<>>,
     req |-> <<>>,
     sub |-> Unset]

\* t["ofType"] or idx[t["name"]] raises KeyError
Fails(fr, index) ==
    \/ KindOf(fr.t) \in {"NON_NULL", "LIST"} /\ "ofType" \notin DOMAIN fr.t
    \/ KindOf(fr.t) \in {"ENUM", "INPUT_OBJECT"} /\ fr.t.name \notin DOMAIN index

\* the frame is at a nested call of _to_schema
AtCall(fr) ==
    \/ KindOf(fr.t) \in {"NON_NULL", "LIST"} /\ "ofType" \in DOMAIN fr.t /\ fr.sub = Unset
    \/ KindOf(fr.t) = "INPUT_OBJECT" /\ fr.fields # <<>>

\* a bug: a wrapper is resolved again in place of what it wraps
CalleeWrapperItself(fr) ==
    IF KindOf(fr.t) \in {"NON_NULL", "LIST"} THEN fr.t ELSE Head(fr.fields).type

\* the reference the nested call is made with: t["ofType"], or f["type"]
Callee(fr) ==
    IF KindOf(fr.t) \in {"NON_NULL", "LIST"} THEN fr.t.ofType ELSE Head(fr.fields).type

\* what the call returns once nothing is left to do in it
Returned(fr, index) ==
    LET kind == KindOf(fr.t)
    IN  IF kind = "NON_NULL" THEN fr.sub
        ELSE IF kind = "LIST" THEN [type |-> "array", items |-> fr.sub]
        ELSE IF kind = "SCALAR" THEN ToSchemaScalar(fr.t)
        ELSE IF kind = "ENUM" THEN ToSchemaEnum(fr.t, index)
        ELSE IF kind = "INPUT_OBJECT"
        THEN IF fr.req # <<>>
             THEN [type |-> "object", properties |-> fr.props, required |-> fr.req]
             ELSE [type |-> "object", properties |-> fr.props]
        ELSE [type |-> "string"]

\* the calling frame once its nested call has returned s: a wrapper holds it,
\* an INPUT_OBJECT finishes the loop body for its field f
Resumed(fr, s) ==
    IF KindOf(fr.t) \in {"NON_NULL", "LIST"} THEN [fr EXCEPT !.sub = s]
    ELSE LET f == Head(fr.fields)
         IN  [fr EXCEPT
                !.fields = Tail(fr.fields),
                !.props = Put(fr.props, f.name,
                              IF Truthy(f, "description")
                              THEN Put(s, "description", f.description) ELSE s),
                !.req = IF _is_nonnull(f.type) THEN Append(fr.req, f.name) ELSE fr.req]

\* Drawn indexes: In2 alone or below an In whose fields are a scalar, a wrapped
\* scalar or In2; and two in which an INPUT_OBJECT reaches itself, directly and
\* through a second type
NestedFieldPool == {f \in InputValuePool : f.name \in {"b", "c", "n"}}

NestedTypeLists ==
    {i \o <<In2Type>> :
        i \in {<<>>} \cup {<<InputType("In", fs)>> : fs \in SeqsUpTo(NestedFieldPool, MaxFields)}}

CyclicTypeLists ==
    {<<InputType("In", <<[name |-> "s", type |-> List(Named("INPUT_OBJECT", "In"))]>>)>>,
     <<InputType("In", <<[name |-> "n", type |-> NonNull(Named("INPUT_OBJECT", "In2"))]>>),
       InputType("In2", <<[name |-> "b", type |-> Named("SCALAR", "Int")],
                          [name |-> "p", type |-> Named("INPUT_OBJECT", "In")]>>)>>}

InitSteps ==
    /\ call = "_to_schema steps"
    /\ arg \in [t : RefsUpTo(MaxWrap),
                doc : {Document(ts) : ts \in NestedTypeLists \cup CyclicTypeLists}]
    /\ pc = "call"
    /\ NoLocals

\* the outermost call starts
StepEnter ==
    /\ call = "_to_schema steps" /\ pc = "call"
    /\ idx' = _gql_type_index(arg.doc)
    /\ stack' = <<Frame(arg.t, idx')>>
    /\ pc' = "run"
    /\ UNCHANGED <<call, arg, schema, fns, desc_set, fd_index, out, iter, io, scalar_map, ret>>

\* the innermost call raises KeyError, which nothing catches
StepRaise ==
    /\ call = "_to_schema steps" /\ pc = "run"
    /\ Fails(stack[Len(stack)], idx)
    /\ pc' = "raised"
    /\ ret' = KeyError
    /\ stack' = <<>>
    /\ UNCHANGED <<call, arg, schema, idx, fns, desc_set, fd_index, out, iter, io, scalar_map>>

\* the innermost call makes its nested call; the interpreter raises
\* RecursionError when that is one call too many
StepCall ==
    /\ call = "_to_schema steps" /\ pc = "run"
    /\ ~Fails(stack[Len(stack)], idx)
    /\ AtCall(stack[Len(stack)])
    /\ IF Len(stack) < MaxDepth
       THEN /\ stack' = Append(stack, Frame(Callee(stack[Len(stack)]), idx))
            /\ pc' = pc /\ ret' = ret
       ELSE /\ stack' = <<>>
            /\ pc' = "raised" /\ ret' = RecursionError
    /\ UNCHANGED <<call, arg, schema, idx, fns, desc_set, fd_index, out, iter, io, scalar_map>>

\* the innermost call returns, to its caller or out of the outermost call
StepReturn ==
    /\ call = "_to_schema steps" /\ pc = "run"
    /\ ~Fails(stack[Len(stack)], idx)
    /\ ~AtCall(stack[Len(stack)])
    /\ LET s == Returned(stack[Len(stack)], idx)
           n == Len(stack)
       IN  IF n = 1
           THEN stack' = <<>> /\ pc' = "done" /\ ret' = s
           ELSE /\ stack' = Append(SubSeq(stack, 1, n - 2), Resumed(stack[n - 1], s))
                /\ pc' = pc /\ ret' = ret
    /\ UNCHANGED <<call, arg, schema, idx, fns, desc_set, fd_index, out, iter, io, scalar_map>>

NextSteps == StepEnter \/ StepRaise \/ StepCall \/ StepReturn

\* a call in progress goes on: the interpreter runs the function to its end
SpecSteps == InitSteps /\ [][NextSteps]_vars /\ WF_vars(NextSteps)

-----------------------------------------------------------------------------
\* generate_tools_from_graphql

\* a bug: the dialect is not checked
FmtUnchecked(fmt) == TRUE

\* fmt in ("openai", "claude")
FmtOk(fmt) == fmt \in {"openai", "claude"}

\* a bug: Query comes first
RootNamesQueryFirst(only_mutations) ==
    IF only_mutations THEN <<"Mutation">> ELSE <<"Query", "Mutation">>

\* ("Mutation",) if only_mutations else ("Mutation", "Query")
RootNames(only_mutations) ==
    IF only_mutations THEN <<"Mutation">> ELSE <<"Mutation", "Query">>

\* root.get("fields", [])
RootFieldsOf(root) == IF "fields" \in DOMAIN root THEN root.fields ELSE <<>>

\* Drawn documents: each root type is absent, has no fields key, or lists fields
MutationFieldPool ==
    {[name |-> <<"c">>, description |-> <<"d">>,
      args |-> <<[name |-> "n", type |-> NonNull(Named("INPUT_OBJECT", "In2"))]>>],
     [name |-> <<"p">>, args |-> <<>>],
     [name |-> <<"e">>, description |-> <<" ">>,
      args |-> <<[name |-> "e", type |-> Named("ENUM", "Gone")]>>]}

QueryFieldPool ==
    {[name |-> <<"g">>, description |-> <<"d", " ">>,
      args |-> <<[name |-> "a", type |-> NonNull(Named("SCALAR", "ID")),
                  description |-> <<"d">>]>>],
     [name |-> <<"s">>,
      args |-> <<[name |-> "e", type |-> List(Named("ENUM", "Color"))]>>]}

RootVariants(name, pool) ==
    {<<>>, <<[kind |-> "OBJECT", name |-> name]>>}
    \cup {<<[kind |-> "OBJECT", name |-> name, fields |-> fs]>> :
            fs \in SeqsUpTo(pool, MaxRootFields)}

PipelineDocs ==
    {Document(q \o m \o <<ColorEnum, In2Type>>) :
        q \in RootVariants("Query", QueryFieldPool),
        m \in RootVariants("Mutation", MutationFieldPool)}

InitGraphql ==
    /\ call = "graphql"
    /\ arg \in [source : [via : {"dict", "path", "url"}, doc : PipelineDocs],
                only_mutations : BOOLEAN,
                fmt : {"openai", "claude", "invalid"}]
    /\ pc = "fmt"
    /\ NoLocals

\* if fmt not in ("openai", "claude"): raise ValueError
GqlCheckFmt ==
    /\ call = "graphql" /\ pc = "fmt"
    /\ IF FmtOk(arg.fmt)
       THEN pc' = "load" /\ ret' = ret
       ELSE pc' = "raised" /\ ret' = ValueError
    /\ UNCHANGED <<call, arg, schema, idx, fns, desc_set, fd_index, out, iter, io>>
    /\ UNCHANGED <<stack, scalar_map>>

\* what _load_introspection can come to, by kind of source
LoadOutcomes(via) ==
    IF via = "url" THEN {"ok", "HTTPError", "RuntimeError"}
    ELSE IF via = "path" THEN {"ok", "OSError", "JSONDecodeError"}
    ELSE {"ok"}

\* schema = _load_introspection(source, headers): one POST for a URL, one open
\* for a path, the document itself for a dict
GqlLoad ==
    /\ call = "graphql" /\ pc = "load"
    /\ io' = IF arg.source.via = "url" THEN Append(io, "POST")
             ELSE IF arg.source.via = "path" THEN Append(io, "open")
             ELSE io
    /\ \E outcome \in LoadOutcomes(arg.source.via) :
         IF outcome = "ok"
         THEN schema' = arg.source.doc /\ pc' = "index" /\ ret' = ret
         ELSE schema' = schema /\ pc' = "raised" /\ ret' = [raise |-> outcome]
    /\ UNCHANGED <<call, arg, idx, fns, desc_set, fd_index, out, iter>>
    /\ UNCHANGED <<stack, scalar_map>>

\* idx = _gql_type_index(schema); fns = []
GqlIndex ==
    /\ call = "graphql" /\ pc = "index"
    /\ idx' = _gql_type_index(schema)
    /\ fns' = <<>>
    /\ iter' = [root |-> 1, field |-> 1]
    /\ pc' = "roots"
    /\ UNCHANGED <<call, arg, schema, desc_set, fd_index, out, io, ret>>
    /\ UNCHANGED <<stack, scalar_map>>

\* for root_name in ...: root = idx.get(root_name); if not root: continue
GqlRoot ==
    /\ call = "graphql" /\ pc = "roots"
    /\ iter.root <= Len(RootNames(arg.only_mutations))
    /\ IF RootNames(arg.only_mutations)[iter.root] \in DOMAIN idx
       THEN pc' = "fields" /\ iter' = [iter EXCEPT !.field = 1]
       ELSE pc' = "roots" /\ iter' = [iter EXCEPT !.root = @ + 1]
    /\ UNCHANGED <<call, arg, schema, idx, fns, desc_set, fd_index, out, io, ret>>
    /\ UNCHANGED <<stack, scalar_map>>

\* for field in root.get("fields", []): fns.append(_build_fn(field, idx, fmt))
GqlField ==
    /\ call = "graphql" /\ pc = "fields"
    /\ LET fields == RootFieldsOf(idx[RootNames(arg.only_mutations)[iter.root]])
       IN  /\ iter.field <= Len(fields)
           /\ LET fn == _build_fn(fields[iter.field], idx, arg.fmt)
              IN  IF Raised(fn)
                  THEN pc' = "raised" /\ ret' = fn /\ fns' = fns /\ iter' = iter
                  ELSE /\ pc' = "fields" /\ ret' = ret
                       /\ fns' = Append(fns, fn)
                       /\ iter' = [iter EXCEPT !.field = @ + 1]
    /\ UNCHANGED <<call, arg, schema, idx, desc_set, fd_index, out, io>>
    /\ UNCHANGED <<stack, scalar_map>>

\* the fields of this root are exhausted: on to the next root
GqlRootDone ==
    /\ call = "graphql" /\ pc = "fields"
    /\ iter.field > Len(RootFieldsOf(idx[RootNames(arg.only_mutations)[iter.root]]))
    /\ pc' = "roots"
    /\ iter' = [iter EXCEPT !.root = @ + 1]
    /\ UNCHANGED <<call, arg, schema, idx, fns, desc_set, fd_index, out, io, ret>>
    /\ UNCHANGED <<stack, scalar_map>>

\* return fns
GqlReturn ==
    /\ call = "graphql" /\ pc = "roots"
    /\ iter.root > Len(RootNames(arg.only_mutations))
    /\ pc' = "done"
    /\ ret' = [value |-> fns]
    /\ UNCHANGED <<call, arg, schema, idx, fns, desc_set, fd_index, out, iter, io>>
    /\ UNCHANGED <<stack, scalar_map>>

-----------------------------------------------------------------------------
\* generate_tools_from_graphql, with the objects of _SCALAR_MAP told apart from
\* copies of them.  A value is a new object, written out, or [entry |-> name]:
\* the very object _SCALAR_MAP holds under name.  `table` is what the objects
\* of _SCALAR_MAP hold at that point; every operator returns it as it leaves it.

Entry(name) == [entry |-> name]

IsEntry(x) == "entry" \in DOMAIN x

\* _SCALAR_MAP.get(t["name"], {"type": "string"}): the object of the table, or a new one
ScalarMapGet(t, table) ==
    IF t.name \in DOMAIN table THEN Entry(t.name) ELSE [type |-> "string"]

\* a bug: the object is passed on as it is, without dict(...)
dict_left_out(x, table) == x

\* dict(x): a new object with the items x has now
dict(x, table) == IF IsEntry(x) THEN table[x.entry] ELSE x

\* x[k] = v: the object x refers to gets the item, wherever else it is referred to
SetItem(x, k, v, table) ==
    IF IsEntry(x)
    THEN [value |-> x, table |-> [table EXCEPT ![x.entry] = Put(@, k, v)]]
    ELSE [value |-> Put(x, k, v), table |-> table]

RaisedWith(exception, table) == [raise |-> exception, table |-> table]

\* if desc := f.get("description"): props[f["name"]]["description"] = desc,
\* where s is what _to_schema returned for the entry f
Described(f, s) ==
    IF Raised(s) \/ ~Truthy(f, "description") THEN s
    ELSE SetItem(s.value, "description", f.description, s.table)

\* {"type": "array", "items": items}
ArrayOf(items) ==
    IF Raised(items) THEN items
    ELSE [value |-> [type |-> "array", items |-> items.value], table |-> items.table]

\* {"type": "object", "properties": props}, with "required" if req
ObjectOf(r) ==
    IF Raised(r) THEN r
    ELSE [value |-> IF r.req # <<>>
                    THEN [type |-> "object", properties |-> r.props, required |-> r.req]
                    ELSE [type |-> "object", properties |-> r.props],
          table |-> r.table]

RECURSIVE ToSchemaByRef(_, _, _)
RECURSIVE InputFieldsLoopByRef(_, _, _, _, _)

\* the rest of the loop body and of the loop, s being the schema now under
\* the name of the first of fields
InputFieldsRest(fields, index, props, req, s) ==
    IF Raised(s) THEN s
    ELSE InputFieldsLoopByRef(
            Tail(fields), index,
            Put(props, Head(fields).name, s.value),
            IF _is_nonnull(Head(fields).type) THEN Append(req, Head(fields).name) ELSE req,
            s.table)

\* the for-loop over inputFields
InputFieldsLoopByRef(fields, index, props, req, table) ==
    IF fields = <<>> THEN [props |-> props, req |-> req, table |-> table]
    ELSE InputFieldsRest(fields, index, props, req,
            Described(Head(fields), ToSchemaByRef(Head(fields).type, index, table)))

\* _to_schema(t, idx)
ToSchemaByRef(t, index, table) ==
    IF KindOf(t) = "NON_NULL"
    THEN IF "ofType" \in DOMAIN t THEN ToSchemaByRef(t.ofType, index, table)
         ELSE RaisedWith("KeyError", table)
    ELSE IF KindOf(t) = "LIST"
    THEN IF "ofType" \in DOMAIN t THEN ArrayOf(ToSchemaByRef(t.ofType, index, table))
         ELSE RaisedWith("KeyError", table)
    ELSE IF KindOf(t) = "SCALAR"
    THEN [value |-> dict(ScalarMapGet(t, table), table), table |-> table]
    ELSE IF KindOf(t) = "ENUM"
    THEN IF t.name \in DOMAIN index
         THEN [value |-> ToSchemaEnum(t, index), table |-> table]
         ELSE RaisedWith("KeyError", table)
    ELSE IF KindOf(t) = "INPUT_OBJECT"
    THEN IF t.name \in DOMAIN index
         THEN ObjectOf(InputFieldsLoopByRef(index[t.name].inputFields, index,
                                            <<>>, <<>>, table))
         ELSE RaisedWith("KeyError", table)
    ELSE [value |-> [type |-> "string"], table |-> table]

RECURSIVE ArgsLoopByRef(_, _, _, _, _)

\* the rest of the loop body and of the loop, s being the schema now under
\* the name of the first of args
ArgsRest(args, index, props, req, s) ==
    IF Raised(s) THEN s
    ELSE ArgsLoopByRef(
            Tail(args), index,
            Put(props, Head(args).name, s.value),
            IF _is_nonnull(Head(args).type) THEN Append(req, Head(args).name) ELSE req,
            s.table)

\* the for-loop over field.get("args", [])
ArgsLoopByRef(args, index, props, req, table) ==
    IF args = <<>> THEN [props |-> props, req |-> req, table |-> table]
    ELSE ArgsRest(args, index, props, req,
            Described(Head(args), ToSchemaByRef(Head(args).type, index, table)))

\* {"name": ..., "description": ..., key: params}
RecordOf(field, fmt, params) ==
    IF Raised(params) THEN params
    ELSE [value |-> Put([name |-> field.name, description |-> FieldDescription(field)],
                        ParamsKey(fmt), params.value),
          table |-> params.table]

\* _build_fn(field, idx, fmt)
BuildFnByRef(field, index, fmt, table) ==
    RecordOf(field, fmt,
        ObjectOf(ArgsLoopByRef(IF "args" \in DOMAIN field THEN field.args ELSE <<>>,
                               index, <<>>, <<>>, table)))

RECURSIVE FieldsLoopByRef(_, _, _, _, _)

\* fns.append(fn) and the rest of the loop, fn being what _build_fn returned
\* for the first of fields
FieldsRest(fields, index, fmt, built, fn) ==
    IF Raised(fn) THEN fn
    ELSE FieldsLoopByRef(Tail(fields), index, fmt, Append(built, fn.value), fn.table)

\* for field in root.get("fields", []): fns.append(_build_fn(field, idx, fmt))
FieldsLoopByRef(fields, index, fmt, built, table) ==
    IF fields = <<>> THEN [built |-> built, table |-> table]
    ELSE FieldsRest(fields, index, fmt, built,
            BuildFnByRef(Head(fields), index, fmt, table))

RECURSIVE RootsLoopByRef(_, _, _, _, _)

\* the rest of the loop, r being where the loop over the fields of the first
\* of names left off
RootsRest(names, index, fmt, r) ==
    IF Raised(r) THEN r
    ELSE RootsLoopByRef(Tail(names), index, fmt, r.built, r.table)

\* for root_name in ...: root = idx.get(root_name); if not root: continue
RootsLoopByRef(names, index, fmt, built, table) ==
    IF names = <<>> THEN [built |-> built, table |-> table]
    ELSE IF Head(names) \notin DOMAIN index
    THEN RootsLoopByRef(Tail(names), index, fmt, built, table)
    ELSE RootsRest(names, index, fmt,
            FieldsLoopByRef(RootFieldsOf(index[Head(names)]), index, fmt, built, table))

\* return fns
ListOf(r) == IF Raised(r) THEN r ELSE [value |-> r.built, table |-> r.table]

\* generate_tools_from_graphql(source, only_mutations=..., fmt=...), source a dict
GenerateByRef(source, only_mutations, fmt, table) ==
    IF ~FmtOk(fmt) THEN RaisedWith("ValueError", table)
    ELSE ListOf(RootsLoopByRef(RootNames(only_mutations), _gql_type_index(source),
                               fmt, <<>>, table))

\* what a schema reads as now: an object of the table has the items it holds now
RECURSIVE Seen(_, _)
Seen(x, table) ==
    IF IsEntry(x) THEN table[x.entry]
    ELSE [k \in DOMAIN x |->
            IF k = "items" THEN Seen(x.items, table)
            ELSE IF k = "properties"
            THEN [n \in DOMAIN x.properties |-> Seen(x.properties[n], table)]
            ELSE x[k]]

\* what the outcome of an invocation reads as now
SeenOutcome(r, table) ==
    IF Raised(r) THEN [raise |-> r.raise]
    ELSE [value |->
            [i \in DOMAIN r.value |->
                [k \in DOMAIN r.value[i] |->
                    IF k \in {"name", "description"} THEN r.value[i][k]
                    ELSE Seen(r.value[i][k], table)]]]

\* Drawn documents: two arguments of one scalar type of which one is described,
\* an input object with a described field, and a field that cannot be built
SharedScalarFieldPool ==
    {[name |-> <<"c">>,
      args |-> <<[name |-> "a", type |-> NonNull(Named("SCALAR", "ID")),
                  description |-> <<"d">>],
                 [name |-> "b", type |-> Named("SCALAR", "ID")]>>],
     [name |-> <<"p">>, description |-> <<"d">>,
      args |-> <<[name |-> "n", type |-> NonNull(Named("INPUT_OBJECT", "In2"))],
                 [name |-> "l", type |-> List(Named("SCALAR", "Int")),
                  description |-> <<"e">>]>>],
     [name |-> <<"e">>,
      args |-> <<[name |-> "u", type |-> Named("SCALAR", "Date"), description |-> <<"e">>],
                 [name |-> "e", type |-> Named("ENUM", "Gone")]>>]}

SharedScalarDocs ==
    {Document(q \o <<[kind |-> "OBJECT", name |-> "Mutation", fields |-> fs]>>
                \o <<ColorEnum, In2Type>>) :
        q \in {<<>>, <<[kind |-> "OBJECT", name |-> "Query",
                        fields |-> <<[name |-> <<"q">>,
                                      args |-> <<[name |-> "i",
                                                  type |-> Named("SCALAR", "Int")]>>]>>]>>},
        fs \in SeqsUpTo(SharedScalarFieldPool, MaxRootFields)}

\* the caller holds a document and the module is freshly imported
InitCalls ==
    /\ call = "graphql calls"
    /\ arg \in [doc : SharedScalarDocs]
    /\ pc = "idle"
    /\ schema = arg.doc
    /\ scalar_map = _SCALAR_MAP
    /\ iter = [calls |-> 0]
    /\ ret = <<>>
    /\ io = <<>>
    /\ stack = <<>>
    /\ idx = Unset /\ fns = Unset /\ desc_set = Unset /\ fd_index = Unset /\ out = Unset

\* what the caller keeps of an invocation: its options and what it returned or raised
OutcomeKept(only_mutations, fmt, r) ==
    [only_mutations |-> only_mutations, fmt |-> fmt,
     outcome |-> IF Raised(r) THEN [raise |-> r.raise] ELSE [value |-> r.value]]

\* the invocation came to r
Invoked(only_mutations, fmt, r) ==
    /\ scalar_map' = r.table
    /\ ret' = Append(ret, OutcomeKept(only_mutations, fmt, r))

\* one more invocation on the document, whatever its options; its index and
\* list are gone when it returns, its outcome is kept by the caller
Invoke ==
    /\ call = "graphql calls"
    /\ iter.calls < MaxCalls
    /\ \E only_mutations \in BOOLEAN, fmt \in {"openai", "claude", "invalid"} :
         Invoked(only_mutations, fmt,
                 GenerateByRef(schema, only_mutations, fmt, scalar_map))
    /\ iter' = [iter EXCEPT !.calls = @ + 1]
    /\ UNCHANGED <<call, arg, pc, schema, idx, fns, desc_set, fd_index, out, io, stack>>

NextCalls == Invoke

SpecCalls == InitCalls /\ [][NextCalls]_vars

-----------------------------------------------------------------------------
\* Proto helpers

\* _proto_scalar: field.type through the mapping, {"type": "string"} by default
_proto_scalar(field) ==
    IF field.type = "TYPE_BOOL" THEN [type |-> "boolean"]
    ELSE IF field.type \in {"TYPE_STRING", "TYPE_BYTES"} THEN [type |-> "string"]
    ELSE IF field.type \in {"TYPE_DOUBLE", "TYPE_FLOAT"} THEN [type |-> "number"]
    ELSE IF field.type \in {"TYPE_INT32", "TYPE_INT64", "TYPE_UINT32", "TYPE_UINT64",
                            "TYPE_SINT32", "TYPE_SINT64"} THEN [type |-> "integer"]
    ELSE [type |-> "string"]

\* s.lstrip(".")
RECURSIVE LStripDots(_)
LStripDots(s) == IF s # <<>> /\ Head(s) = "." THEN LStripDots(Tail(s)) ELSE s

\* f.json_name or f.name
PropertyName(f) == IF f.json_name # "" THEN f.json_name ELSE f.name

RECURSIVE _msg_schema(_, _)
RECURSIVE MsgFieldsLoop(_, _, _, _)

\* the type of one field, before the label is looked at
FieldBaseSchema(f, index) ==
    IF f.type = "TYPE_MESSAGE"
    THEN IF LStripDots(f.type_name) \in DOMAIN index
         THEN _msg_schema(index[LStripDots(f.type_name)], index)
         ELSE KeyError
    ELSE IF f.type = "TYPE_ENUM"
    THEN IF LStripDots(f.type_name) \in DOMAIN index
         THEN LET values == index[LStripDots(f.type_name)].value
              IN  [type |-> "string", enum |-> [i \in 1..Len(values) |-> values[i].name]]
         ELSE KeyError
    ELSE _proto_scalar(f)

\* a bug: `required` gets f.name where `properties` gets f.json_name or f.name
MsgFieldsLoopRawName(fields, index, props, req) ==
    IF fields = <<>> THEN [props |-> props, req |-> req]
    ELSE LET f == Head(fields)
             base == FieldBaseSchema(f, index)
         IN  IF Raised(base) THEN base
             ELSE MsgFieldsLoop(
                    Tail(fields), index,
                    Put(props, PropertyName(f),
                        IF f.label = "LABEL_REPEATED"
                        THEN [type |-> "array", items |-> base] ELSE base),
                    IF f.label = "LABEL_REQUIRED" THEN Append(req, f.name) ELSE req)

\* the for-loop over msg.field: the rest of the list, props and req so far
MsgFieldsLoop(fields, index, props, req) ==
    IF fields = <<>> THEN [props |-> props, req |-> req]
    ELSE LET f == Head(fields)
             base == FieldBaseSchema(f, index)
         IN  IF Raised(base) THEN base
             ELSE MsgFieldsLoop(
                    Tail(fields), index,
                    Put(props, PropertyName(f),
                        IF f.label = "LABEL_REPEATED"
                        THEN [type |-> "array", items |-> base] ELSE base),
                    IF f.label = "LABEL_REQUIRED"
                    THEN Append(req, PropertyName(f)) ELSE req)

_msg_schema(msg, index) ==
    LET r == MsgFieldsLoop(msg.field, index, <<>>, <<>>)
    IN  IF Raised(r) THEN r
        ELSE IF r.req # <<>>
             THEN [type |-> "object", properties |-> r.props, required |-> r.req]
             ELSE [type |-> "object", properties |-> r.props]

\* f".{fd.package}.{m.name}"
IndexKey(package, name) == <<".">> \o package \o <<".">> \o name

\* fd_index after the files from position i on are added, messages before enums
RECURSIVE PutAll(_, _, _)
PutAll(index, package, descriptors) ==
    IF descriptors = <<>> THEN index
    ELSE PutAll(Put(index, IndexKey(package, Head(descriptors).name), Head(descriptors)),
                package, Tail(descriptors))

RECURSIVE BuildFdIndex(_, _)
BuildFdIndex(files, index) ==
    IF files = <<>> THEN index
    ELSE BuildFdIndex(
            Tail(files),
            PutAll(PutAll(index, Head(files).package, Head(files).message_type),
                   Head(files).package, Head(files).enum_type))

Calls == <<"C", "a", "l", "l", "s", " ">>

\* rpc.leading_comments.strip() if rpc.leading_comments else f"Calls {rpc.name}"
RpcDescription(rpc) ==
    IF rpc.leading_comments # <<>> THEN Strip(rpc.leading_comments)
    ELSE Calls \o rpc.name

\* services and svc.name not in services
Skipped(services, svc) ==
    /\ services.given /\ services.names # <<>>
    /\ \A i \in DOMAIN services.names : services.names[i] # svc.name

-----------------------------------------------------------------------------
\* Drawn descriptor sets

\* a reference as protoc writes it: fully qualified, with a leading dot
ProtocName(package, name) ==
    <<".">> \o (IF package = <<>> THEN <<>> ELSE package \o <<".">>) \o name

ScalarField(name, json_name, type, label) ==
    [name |-> name, json_name |-> json_name, type |-> type, type_name |-> <<>>,
     label |-> label]

InnerMessage ==
    [name |-> <<"I">>,
     field |-> <<ScalarField("v", "", "TYPE_INT32", "LABEL_REQUIRED")>>]

ColorProtoEnum == [name |-> <<"C">>, value |-> <<[name |-> "RED"], [name |-> "BLUE"]>>]

\* the request message R of a file: scalar fields only, a repeated message
\* field, an enum field, or two fields that come under one property name
RequestMessages(package) ==
    {[name |-> <<"R">>,
      field |-> <<ScalarField("user_id", "userId", "TYPE_INT64", "LABEL_REQUIRED"),
                  ScalarField("tags", "", "TYPE_STRING", "LABEL_REPEATED"),
                  ScalarField("blob", "", "TYPE_GROUP", "LABEL_OPTIONAL")>>],
     [name |-> <<"R">>,
      field |-> <<[name |-> "items", json_name |-> "", type |-> "TYPE_MESSAGE",
                   type_name |-> ProtocName(package, <<"I">>),
                   label |-> "LABEL_REPEATED"]>>],
     [name |-> <<"R">>,
      field |-> <<[name |-> "color", json_name |-> "", type |-> "TYPE_ENUM",
                   type_name |-> ProtocName(package, <<"C">>),
                   label |-> "LABEL_OPTIONAL"]>>],
     [name |-> <<"R">>,
      field |-> <<ScalarField("id", "", "TYPE_INT32", "LABEL_REQUIRED"),
                  ScalarField("x", "id", "TYPE_STRING", "LABEL_REQUIRED")>>]}

Method(name, input_type, comments) ==
    [name |-> name, input_type |-> input_type, leading_comments |-> comments]

OtherMessage == [name |-> <<"Q">>, field |-> <<ScalarField("q", "", "TYPE_BOOL", "LABEL_OPTIONAL")>>]

ServicePool(package) ==
    {[name |-> "A",
      method |-> <<Method(<<"G", "e", "t", "U">>, ProtocName(package, <<"R">>), <<" ", "d">>),
                   Method(<<"L", "s">>, ProtocName(<<"q">>, <<"Q">>), <<>>)>>],
     [name |-> "B", method |-> <<Method(Ping, ProtocName(package, <<"R">>), <<>>)>>],
     [name |-> "B",
      method |-> <<Method(<<"F">>, Tail(ProtocName(package, <<"R">>)), <<>>)>>],
     [name |-> "C", method |-> <<>>]}

FilesOf(package) ==
    {[package |-> package, message_type |-> <<r, InnerMessage>>,
      enum_type |-> <<ColorProtoEnum>>, service |-> svcs] :
        r \in RequestMessages(package),
        svcs \in SeqsUpTo(ServicePool(package), MaxServices)}

\* the package is empty or "p"
FirstFiles == FilesOf(<<>>) \cup FilesOf(<<"p">>)

SecondFiles ==
    {[package |-> <<"q">>, message_type |-> <<OtherMessage>>, enum_type |-> <<>>,
      service |-> svcs] :
        svcs \in {<<>>, <<[name |-> "A",
                           method |-> <<Method(<<"S">>, ProtocName(<<"q">>, <<"Q">>),
                                               <<>>)>>]>>}}

DescriptorSets == {<<f>> : f \in FirstFiles} \cup {<<f, g>> : f \in FirstFiles, g \in SecondFiles}

Allowlists ==
    {[given |-> FALSE, names |-> <<>>], [given |-> TRUE, names |-> <<>>],
     [given |-> TRUE, names |-> <<"A">>], [given |-> TRUE, names |-> <<"B", "A">>]}

-----------------------------------------------------------------------------
\* generate_tools_from_proto

InitProto ==
    /\ call = "proto"
    /\ arg \in [descriptor_file : DescriptorSets,
                services : Allowlists,
                fmt : {"openai", "claude", "invalid"}]
    /\ pc = "import"
    /\ NoLocals

\* if descriptor_pb2 is None: raise RuntimeError
ProtoCheckImport ==
    /\ call = "proto" /\ pc = "import"
    /\ \E installed \in BOOLEAN :
         IF installed
         THEN pc' = "fmt" /\ ret' = ret
         ELSE pc' = "raised" /\ ret' = RuntimeError
    /\ UNCHANGED <<call, arg, schema, idx, fns, desc_set, fd_index, out, iter, io>>
    /\ UNCHANGED <<stack, scalar_map>>

\* if fmt not in ("openai", "claude"): raise ValueError
ProtoCheckFmt ==
    /\ call = "proto" /\ pc = "fmt"
    /\ IF FmtOk(arg.fmt)
       THEN pc' = "load" /\ ret' = ret
       ELSE pc' = "raised" /\ ret' = ValueError
    /\ UNCHANGED <<call, arg, schema, idx, fns, desc_set, fd_index, out, iter, io>>
    /\ UNCHANGED <<stack, scalar_map>>

\* with open(descriptor_file, "rb") as fh: desc_set.ParseFromString(fh.read())
ProtoLoad ==
    /\ call = "proto" /\ pc = "load"
    /\ io' = Append(io, "open")
    /\ \E outcome \in {"ok", "OSError", "DecodeError"} :
         IF outcome = "ok"
         THEN desc_set' = arg.descriptor_file /\ pc' = "index" /\ ret' = ret
         ELSE desc_set' = desc_set /\ pc' = "raised" /\ ret' = [raise |-> outcome]
    /\ UNCHANGED <<call, arg, schema, idx, fns, fd_index, out, iter>>
    /\ UNCHANGED <<stack, scalar_map>>

\* the fd_index loops; out = []
ProtoIndex ==
    /\ call = "proto" /\ pc = "index"
    /\ fd_index' = BuildFdIndex(desc_set, <<>>)
    /\ out' = <<>>
    /\ iter' = [file |-> 1, svc |-> 1, rpc |-> 1]
    /\ pc' = "services"
    /\ UNCHANGED <<call, arg, schema, idx, fns, desc_set, io, ret>>
    /\ UNCHANGED <<stack, scalar_map>>

\* for svc in fd.service: the service is skipped, or its methods are entered
ProtoService ==
    /\ call = "proto" /\ pc = "services"
    /\ iter.file <= Len(desc_set)
    /\ iter.svc <= Len(desc_set[iter.file].service)
    /\ IF Skipped(arg.services, desc_set[iter.file].service[iter.svc])
       THEN pc' = "services" /\ iter' = [iter EXCEPT !.svc = @ + 1]
       ELSE pc' = "methods" /\ iter' = [iter EXCEPT !.rpc = 1]
    /\ UNCHANGED <<call, arg, schema, idx, fns, desc_set, fd_index, out, io, ret>>
    /\ UNCHANGED <<stack, scalar_map>>

\* for rpc in svc.method: fn_schema = _msg_schema(fd_index[rpc.input_type], fd_index);
\* out.append({...})
ProtoMethod ==
    /\ call = "proto" /\ pc = "methods"
    /\ LET methods == desc_set[iter.file].service[iter.svc].method
       IN  /\ iter.rpc <= Len(methods)
           /\ LET rpc == methods[iter.rpc]
                  fn_schema == IF rpc.input_type \in DOMAIN fd_index
                               THEN _msg_schema(fd_index[rpc.input_type], fd_index)
                               ELSE KeyError
              IN  IF Raised(fn_schema)
                  THEN pc' = "raised" /\ ret' = fn_schema /\ out' = out /\ iter' = iter
                  ELSE /\ pc' = "methods" /\ ret' = ret
                       /\ out' = Append(out,
                                    Put([name |-> _rpc_fn_name(rpc.name),
                                         description |-> RpcDescription(rpc)],
                                        ParamsKey(arg.fmt), fn_schema))
                       /\ iter' = [iter EXCEPT !.rpc = @ + 1]
    /\ UNCHANGED <<call, arg, schema, idx, fns, desc_set, fd_index, io>>
    /\ UNCHANGED <<stack, scalar_map>>

\* the methods of this service are exhausted: on to the next service
ProtoServiceDone ==
    /\ call = "proto" /\ pc = "methods"
    /\ iter.rpc > Len(desc_set[iter.file].service[iter.svc].method)
    /\ pc' = "services"
    /\ iter' = [iter EXCEPT !.svc = @ + 1]
    /\ UNCHANGED <<call, arg, schema, idx, fns, desc_set, fd_index, out, io, ret>>
    /\ UNCHANGED <<stack, scalar_map>>

\* the services of this file are exhausted: on to the next file
ProtoFileDone ==
    /\ call = "proto" /\ pc = "services"
    /\ iter.file <= Len(desc_set)
    /\ iter.svc > Len(desc_set[iter.file].service)
    /\ iter' = [iter EXCEPT !.file = @ + 1, !.svc = 1]
    /\ UNCHANGED <<call, arg, pc, schema, idx, fns, desc_set, fd_index, out, io, ret>>
    /\ UNCHANGED <<stack, scalar_map>>

\* return out
ProtoReturn ==
    /\ call = "proto" /\ pc = "services"
    /\ iter.file > Len(desc_set)
    /\ pc' = "done"
    /\ ret' = [value |-> out]
    /\ UNCHANGED <<call, arg, schema, idx, fns, desc_set, fd_index, out, iter, io>>
    /\ UNCHANGED <<stack, scalar_map>>

-----------------------------------------------------------------------------
\* Claims about the GraphQL helpers

Resolved == call = "_to_schema" /\ pc = "done"

Built == call = "_build_fn" /\ pc = "done"

\* C1 (as claimed): _to_schema never raises, and a reference of kind ENUM or
\* INPUT_OBJECT whose name is not in the index, or of an unrecognized kind,
\* resolves to {type: "string"}.
C1_ResolverNeverRaises ==
    Resolved =>
        /\ ~Raised(ret)
        /\ (/\ KindOf(arg.t) \in {"ENUM", "INPUT_OBJECT"}
            /\ arg.t.name \notin DOMAIN idx) => ret = [type |-> "string"]
        /\ KindOf(arg.t) \notin {"NON_NULL", "LIST", "SCALAR", "ENUM", "INPUT_OBJECT"}
             => ret = [type |-> "string"]

\* C7: resolving NON_NULL(X) has the same outcome as resolving X, and a
\* resolved Schema carries no key besides those of a Schema node.
C7_NonNullTransparent ==
    Resolved /\ KindOf(arg.t) = "NON_NULL" /\ "ofType" \in DOMAIN arg.t =>
        /\ ret = _to_schema(arg.t.ofType, idx)
        /\ DOMAIN ret \subseteq
             {"type", "items", "enum", "properties", "required", "raise"}

C7_Witness ==
    /\ Resolved
    /\ arg.t = NonNull(List(Named("SCALAR", "Int")))
    /\ ret = [type |-> "array", items |-> [type |-> "integer"]]

\* the description the field carries, None read as the empty string
OwnDescription(field) ==
    IF "description" \in DOMAIN field THEN field.description ELSE <<>>

\* C3 (as claimed): the record's description is the field's own description
\* (as given or trimmed) when that is non-empty after trimming, and otherwise
\* "Executes " + field.name; never the empty string.
C3_DescriptionOrExecutes ==
    Built /\ ~Raised(ret) =>
        /\ ret.description # <<>>
        /\ IF Strip(OwnDescription(arg.field)) # <<>>
           THEN ret.description \in
                  {OwnDescription(arg.field), Strip(OwnDescription(arg.field))}
           ELSE ret.description = Executes \o arg.field.name

\* the names whose declared type is NON_NULL at the top, in declaration order
RECURSIVE RequiredNames(_)
RequiredNames(values) ==
    IF values = <<>> THEN <<>>
    ELSE (IF Head(values).type.kind = "NON_NULL" THEN <<Head(values).name>> ELSE <<>>)
         \o RequiredNames(Tail(values))

RequiredAsDeclared(obj, values) ==
    IF RequiredNames(values) = <<>> THEN "required" \notin DOMAIN obj
    ELSE "required" \in DOMAIN obj /\ obj.required = RequiredNames(values)

\* the entries whose schema is the one kept under their name
Kept(values) ==
    {i \in DOMAIN values : \A j \in DOMAIN values : values[j].name = values[i].name => j <= i}

\* every object node of schema s, resolved from reference t, lists as required
\* exactly the NON_NULL input fields of its type
RECURSIVE RequiredThroughout(_, _, _)
RequiredThroughout(t, s, index) ==
    IF t.kind = "NON_NULL" THEN RequiredThroughout(t.ofType, s, index)
    ELSE IF t.kind = "LIST" THEN RequiredThroughout(t.ofType, s.items, index)
    ELSE IF t.kind = "INPUT_OBJECT"
    THEN LET fields == index[t.name].inputFields
         IN  /\ RequiredAsDeclared(s, fields)
             /\ \A i \in Kept(fields) :
                    RequiredThroughout(fields[i].type, s.properties[fields[i].name], index)
    ELSE TRUE

FieldArgs(field) == IF "args" \in DOMAIN field THEN field.args ELSE <<>>

\* C4: `required` is the subsequence, in declaration order, of the names whose
\* declared type has outermost kind NON_NULL, and is absent when that is empty;
\* for a field's args and for every INPUT_OBJECT's inputFields.
C4_RequiredIsOuterNonNull ==
    /\ Resolved /\ ~Raised(ret) => RequiredThroughout(arg.t, ret, idx)
    /\ Built /\ ~Raised(ret) =>
         LET params == ret[ParamsKey(arg.fmt)]
             args == FieldArgs(arg.field)
         IN  /\ RequiredAsDeclared(params, args)
             /\ \A i \in Kept(args) :
                    RequiredThroughout(args[i].type, params.properties[args[i].name], idx)

\* [String!] comes first and is not required, [String]! follows and is
C4_Witness ==
    /\ Built /\ ~Raised(ret)
    /\ Len(FieldArgs(arg.field)) = 2
    /\ arg.field.args[1].type = List(NonNull(Named("SCALAR", "String")))
    /\ arg.field.args[2].type = NonNull(List(Named("SCALAR", "String")))
    /\ ret[ParamsKey(arg.fmt)].required = <<"c">>

-----------------------------------------------------------------------------
\* Claims about _rpc_fn_name

Named_ == call = "_rpc_fn_name" /\ pc = "done"

\* the rule, character by character: "_" and the lowercased letter for an
\* uppercase letter that is not first, the lowercased character otherwise
RECURSIVE SnakeFrom(_, _)
SnakeFrom(name, i) ==
    IF i > Len(name) THEN <<>>
    ELSE (IF i > 1 /\ IsUpper(name[i]) THEN <<"_", LowerChar(name[i])>>
          ELSE <<LowerChar(name[i])>>) \o SnakeFrom(name, i + 1)

SnakeRule ==
    /\ ret.value = SnakeFrom(arg.rpc, 1)
    /\ arg.rpc = GetUserProfile =>
         ret.value = <<"g", "e", "t", "_", "u", "s", "e", "r", "_",
                       "p", "r", "o", "f", "i", "l", "e">>
    /\ arg.rpc = Ping => ret.value = <<"p", "i", "n", "g">>

\* C10 (as claimed): the tool name follows the rule, GetUserProfile becomes
\* get_user_profile, Ping becomes ping, and no result starts with an underscore.
C10_NoLeadingUnderscore ==
    Named_ => SnakeRule /\ (ret.value = <<>> \/ ret.value[1] # "_")

\* C10 (amended): the tool name follows the rule, GetUserProfile becomes
\* get_user_profile, Ping becomes ping, and a result starts with an underscore
\* only when the method name itself does.
C10_SnakeCase ==
    Named_ =>
        /\ SnakeRule
        /\ (ret.value # <<>> /\ ret.value[1] = "_") => arg.rpc[1] = "_"

C10_Witness ==
    /\ Named_
    /\ arg.rpc = GetUserProfile
    /\ ret.value = <<"g", "e", "t", "_", "u", "s", "e", "r", "_",
                     "p", "r", "o", "f", "i", "l", "e">>

-----------------------------------------------------------------------------
\* Claims about generate_tools_from_graphql

\* the fields the document declares for a root type, none when it has no such type
DeclaredFields(doc, root_name) ==
    LET types == doc.data.__schema.types
        at == {i \in DOMAIN types : types[i].name = root_name}
    IN  IF at = {} THEN <<>>
        ELSE RootFieldsOf(types[CHOOSE i \in at : \A j \in at : j <= i])

\* Mutation's fields, then Query's unless only_mutations is set
IncludedFields ==
    DeclaredFields(arg.source.doc, "Mutation")
    \o (IF arg.only_mutations THEN <<>> ELSE DeclaredFields(arg.source.doc, "Query"))

\* C5: with a dialect other than "openai" or "claude" both generators raise a
\* configuration error before anything else happens: no file is opened, no
\* request is sent, nothing is loaded or indexed, no record is built.
C5_BadDialectFailsFast ==
    (call \in {"graphql", "proto"} /\ arg.fmt \notin {"openai", "claude"}) =>
        /\ pc \in {"import", "fmt", "raised"}
        /\ pc = "raised" =>
             \/ ret = ValueError
             \/ call = "proto" /\ ret = RuntimeError
        /\ io = <<>>
        /\ schema = Unset /\ idx = Unset /\ fns = Unset
        /\ desc_set = Unset /\ fd_index = Unset /\ out = Unset

C5_Witness ==
    /\ call = "proto" /\ pc = "raised"
    /\ arg.fmt = "invalid"
    /\ Len(arg.descriptor_file) = 2
    /\ ret = ValueError
    /\ io = <<>>

\* the record of each included field, in order
IncludedRecords ==
    [i \in 1..Len(IncludedFields) |-> _build_fn(IncludedFields[i], idx, arg.fmt)]

\* C6: the records are built one per field of the included root types,
\* Mutation's fields in declaration order and then Query's, and the list
\* returned is all of them; a root type absent from the index adds no record
\* and raises nothing: once the index is built, only the building of the next
\* field's record can raise.
C6_OneRecordPerField ==
    (call = "graphql" /\ iter # Unset) =>
        /\ Len(fns) <= Len(IncludedRecords)
        /\ fns = SubSeq(IncludedRecords, 1, Len(fns))
        /\ pc = "done" => ret.value = IncludedRecords
        /\ pc = "raised" =>
             /\ Len(fns) < Len(IncludedRecords)
             /\ ret = IncludedRecords[Len(fns) + 1]

\* Query is listed before Mutation in the document, and its record comes last
C6_Witness ==
    /\ call = "graphql" /\ pc = "done"
    /\ ~arg.only_mutations
    /\ Len(ret.value) = 3
    /\ ret.value[1].name = <<"c">>
    /\ ret.value[2].name = <<"p">>
    /\ ret.value[3].name = <<"g">>

-----------------------------------------------------------------------------
\* Claims about generate_tools_from_proto

InLoop == call = "proto" /\ iter # Unset

\* the method whose record is being built
CurrentRpc == desc_set[iter.file].service[iter.svc].method[iter.rpc]

\* a method's record was appended last
JustBuilt == InLoop /\ pc = "methods" /\ iter.rpc > 1

PreviousRpc == desc_set[iter.file].service[iter.svc].method[iter.rpc - 1]

\* field f is message- or enum-typed and the index stores a type under its type_name
Stored(f) ==
    /\ f.type \in {"TYPE_MESSAGE", "TYPE_ENUM"}
    /\ f.type_name \in DOMAIN fd_index

References(f) == f.type \in {"TYPE_MESSAGE", "TYPE_ENUM"}

\* the schema of the type stored under f.type_name, in an array when f is repeated
ReferencedSchema(f) ==
    LET d == fd_index[f.type_name]
        base == IF "value" \in DOMAIN d
                THEN [type |-> "string",
                      enum |-> [i \in 1..Len(d.value) |-> d.value[i].name]]
                ELSE _msg_schema(d, fd_index)
    IN  IF f.label = "LABEL_REPEATED" THEN [type |-> "array", items |-> base] ELSE base

\* C2 (as claimed): a field of type MESSAGE or ENUM whose type_name is a key of
\* the index resolves to the schema of the type stored there (in an array when
\* repeated), and the lookup does not fail.
C2_StoredReferencesResolve ==
    /\ (InLoop /\ pc = "raised" /\ CurrentRpc.input_type \in DOMAIN fd_index) =>
         LET fields == fd_index[CurrentRpc.input_type].field
         IN  \E i \in DOMAIN fields : References(fields[i]) /\ ~Stored(fields[i])
    /\ (JustBuilt /\ PreviousRpc.input_type \in DOMAIN fd_index) =>
         LET fields == fd_index[PreviousRpc.input_type].field
         IN  \A i \in DOMAIN fields :
                Stored(fields[i]) =>
                    out[Len(out)][ParamsKey(arg.fmt)].properties[PropertyName(fields[i])]
                      = ReferencedSchema(fields[i])

\* a type's fully-qualified name, without the leading dot
QualifiedName(package, name) ==
    IF package = <<>> THEN name ELSE package \o <<".">> \o name

\* the messages of the descriptor set that a reference names, whether or not
\* the reference has a leading dot
NamedMessages(ref) ==
    {desc_set[i].message_type[j] :
        <<i, j>> \in {x \in (DOMAIN desc_set) \X (1..2) :
                        /\ x[2] \in DOMAIN desc_set[x[1]].message_type
                        /\ LStripDots(ref) =
                             QualifiedName(desc_set[x[1]].package,
                                           desc_set[x[1]].message_type[x[2]].name)}}

ScalarOnly(msg) == \A i \in DOMAIN msg.field : ~References(msg.field[i])

\* C8 (as claimed): a method whose input_type names a message defined anywhere
\* in the set, whatever the package and with or without a leading dot, gets one
\* record whose parameter schema is that message's schema.  Stated for
\* messages of scalar fields, whose schema needs no further lookup.
C8_EveryDefinedInputResolves ==
    /\ (InLoop /\ pc = "raised") =>
         \A m \in NamedMessages(CurrentRpc.input_type) : ~ScalarOnly(m)
    /\ JustBuilt =>
         \A m \in NamedMessages(PreviousRpc.input_type) :
            ScalarOnly(m) => out[Len(out)][ParamsKey(arg.fmt)] = _msg_schema(m, fd_index)

RECURSIVE Flatten(_)
Flatten(seqs) == IF seqs = <<>> THEN <<>> ELSE Head(seqs) \o Flatten(Tail(seqs))

InList(names, x) == \E i \in DOMAIN names : names[i] = x

\* the methods of the services named in the allowlist, by file, service, method
AllowedMethods(files, names) ==
    Flatten([i \in DOMAIN files |->
        Flatten([j \in DOMAIN files[i].service |->
            IF InList(names, files[i].service[j].name)
            THEN files[i].service[j].method ELSE <<>>])])

\* C9 (as claimed): with an allowlist given, the records returned are those of
\* the methods of the services named in it, in file, service, method order; a
\* given but empty allowlist yields no record.
C9_AllowlistFilters ==
    (call = "proto" /\ pc = "done" /\ arg.services.given) =>
        LET allowed == AllowedMethods(desc_set, arg.services.names)
        IN  [i \in 1..Len(ret.value) |-> ret.value[i].name]
              = [i \in 1..Len(allowed) |-> _rpc_fn_name(allowed[i].name)]

-----------------------------------------------------------------------------
\* Claims about the records of both generators

\* a generator is inside its loops or past them
Generating == call \in {"graphql", "proto"} /\ iter # Unset

\* the records built so far
RecordsSoFar == IF call = "graphql" THEN fns ELSE out

\* a record of the dialect: name, description and the dialect's one key, under
\* which sits an object schema with properties
DialectRecord(rec, fmt) ==
    /\ fmt \in {"openai", "claude"}
    /\ fmt = "openai" => DOMAIN rec = {"name", "description", "parameters"}
    /\ fmt = "claude" => DOMAIN rec = {"name", "description", "input_schema"}
    /\ \A k \in DOMAIN rec \ {"name", "description"} :
          /\ rec[k].type = "object"
          /\ "properties" \in DOMAIN rec[k]

\* C11: every tool record of either generator has the keys name and
\* description and exactly one more, `parameters` for the dialect openai and
\* `input_schema` for claude, whose value is an object schema with a
\* `properties` mapping.
C11_OneParameterKey ==
    /\ Generating =>
         /\ \A i \in DOMAIN RecordsSoFar : DialectRecord(RecordsSoFar[i], arg.fmt)
         /\ pc = "done" =>
              \A i \in DOMAIN ret.value : DialectRecord(ret.value[i], arg.fmt)
    /\ Built /\ ~Raised(ret) => DialectRecord(ret, arg.fmt)

C11_Witness ==
    /\ call = "proto" /\ pc = "done"
    /\ arg.fmt = "claude"
    /\ Len(ret.value) = 1
    /\ DOMAIN ret.value[1] = {"name", "description", "input_schema"}
    /\ "userId" \in DOMAIN ret.value[1].input_schema.properties

\* every name `required` lists in an object node of schema s, at any depth, is
\* a key of that node's properties
RECURSIVE RequiredWithinProperties(_)
RequiredWithinProperties(s) ==
    /\ "required" \in DOMAIN s =>
         /\ "properties" \in DOMAIN s
         /\ \A i \in DOMAIN s.required : s.required[i] \in DOMAIN s.properties
    /\ "properties" \in DOMAIN s =>
         \A k \in DOMAIN s.properties : RequiredWithinProperties(s.properties[k])
    /\ "items" \in DOMAIN s => RequiredWithinProperties(s.items)

\* the parameter schema of a record, whatever its key
ParameterSchemas(rec) == {rec[k] : k \in DOMAIN rec \ {"name", "description"}}

\* C12: in every object Schema node either generator produces, the parameter
\* schema of a record and every input-object or message schema nested in it,
\* `required` lists only names that are keys of the node's `properties`; also
\* when two arguments or fields come under one name.
C12_RequiredWithinProperties ==
    /\ Generating =>
         \A i \in DOMAIN RecordsSoFar :
            \A s \in ParameterSchemas(RecordsSoFar[i]) : RequiredWithinProperties(s)
    /\ Built /\ ~Raised(ret) =>
         \A s \in ParameterSchemas(ret) : RequiredWithinProperties(s)
    /\ Resolved /\ ~Raised(ret) => RequiredWithinProperties(ret)

\* two fields under the property name id, both required
C12_Witness ==
    /\ call = "proto" /\ pc = "done"
    /\ Len(ret.value) = 1
    /\ \E s \in ParameterSchemas(ret.value[1]) :
          /\ "required" \in DOMAIN s
          /\ s.required = <<"id", "id">>
          /\ DOMAIN s.properties = {"id"}

-----------------------------------------------------------------------------
\* Claims about the recursion of _to_schema

Stepping == call = "_to_schema steps"

\* the named reference under the wrappers
RECURSIVE Innermost(_)
Innermost(t) == IF "ofType" \in DOMAIN t THEN Innermost(t.ofType) ELSE t

\* the INPUT_OBJECT types of the index that the inputFields of type n refer to
Uses(index, n) ==
    {Innermost(index[n].inputFields[i].type).name :
        i \in {j \in DOMAIN index[n].inputFields :
                LET leaf == Innermost(index[n].inputFields[j].type)
                IN  KindOf(leaf) = "INPUT_OBJECT" /\ leaf.name \in DOMAIN index}}

InputObjects(index) == {n \in DOMAIN index : index[n].kind = "INPUT_OBJECT"}

\* the types reached from those of S in at most k steps through inputFields
RECURSIVE ReachedFrom(_, _, _)
ReachedFrom(index, S, k) ==
    IF k = 0 THEN S
    ELSE ReachedFrom(index, S \cup UNION {Uses(index, n) : n \in S}, k - 1)

\* no INPUT_OBJECT type reaches itself through its inputFields
Acyclic(index) ==
    \A n \in InputObjects(index) :
        n \notin ReachedFrom(index, Uses(index, n), Cardinality(DOMAIN index))

Max(S) == CHOOSE x \in S : \A y \in S : y <= x

\* the number of NON_NULL and LIST wrappers around the named reference
RECURSIVE WrapDepth(_)
WrapDepth(t) == IF "ofType" \in DOMAIN t THEN 1 + WrapDepth(t.ofType) ELSE 0

\* how many INPUT_OBJECT types lie one inside the other from type n on
RECURSIVE ObjectLevels(_, _)
ObjectLevels(index, n) ==
    1 + Max({0} \cup {ObjectLevels(index, m) : m \in Uses(index, n)})

\* the input-object nesting depth of an acyclic schema
ObjectNesting(index) ==
    Max({0} \cup {ObjectLevels(index, n) : n \in InputObjects(index)})

\* how many type references lie one inside the other from reference t on: the
\* wrappers, the named reference and, for an INPUT_OBJECT of the index, the
\* deepest of its fields' types
RECURSIVE ReferenceLevels(_, _)
ReferenceLevels(index, t) ==
    IF "ofType" \in DOMAIN t THEN 1 + ReferenceLevels(index, t.ofType)
    ELSE IF KindOf(t) = "INPUT_OBJECT" /\ t.name \in DOMAIN index
    THEN 1 + Max({0} \cup {ReferenceLevels(index, index[t.name].inputFields[i].type) :
                            i \in DOMAIN index[t.name].inputFields})
    ELSE 1

\* the nesting depth of an acyclic schema in type references: the references
\* that lie inside its deepest INPUT_OBJECT, wrappers around field types included
ReferenceNesting(index) ==
    Max({0} \cup {ReferenceLevels(index, Named("INPUT_OBJECT", n)) - 1 :
                    n \in InputObjects(index)})

\* the resolver is running over an index in which no INPUT_OBJECT reaches itself
SteppingAcyclic == Stepping /\ pc = "run" /\ Acyclic(idx)

Terminated == pc \in {"done", "raised"} /\ ret # RecursionError

\* the calls of _to_schema nested inside the outermost one
RecursionDepth == Len(stack) - 1

\* C13 (as claimed): over an index in which no INPUT_OBJECT reaches itself the
\* resolver terminates, and its recursion depth is at most the wrapper nesting
\* depth of the reference plus the number of INPUT_OBJECT types nested one
\* inside the other in the schema.
C13_DepthWithinObjectNesting ==
    /\ [](SteppingAcyclic => RecursionDepth <= WrapDepth(arg.t) + ObjectNesting(idx))
    /\ (SteppingAcyclic ~> Terminated)

\* C13 (amended): over an index in which no INPUT_OBJECT reaches itself the
\* resolver terminates, and its recursion depth is at most the wrapper nesting
\* depth of the reference plus the nesting depth of the schema's input
\* objects, in which the NON_NULL and LIST wrappers around a field's type
\* count as levels like the types themselves.  Neither count grows with the
\* number of types or fields.
C13_DepthWithinReferenceNesting ==
    /\ [](SteppingAcyclic => RecursionDepth <= WrapDepth(arg.t) + ReferenceNesting(idx))
    /\ (SteppingAcyclic ~> Terminated)

\* [In!] over In {n: In2!, ...} and In2 {x: Boolean!, ...}: seven calls in
\* progress, six of them nested, which is the bound
C13_Witness ==
    /\ SteppingAcyclic
    /\ arg.t = List(NonNull(Named("INPUT_OBJECT", "In")))
    /\ "In" \in DOMAIN idx
    /\ Len(idx["In"].inputFields) = 2
    /\ Len(stack) = 7
    /\ RecursionDepth = WrapDepth(arg.t) + ReferenceNesting(idx)

\* what _to_schema returns is what its calls, taken one by one, come to
StepsAgree ==
    (Stepping /\ pc \in {"done", "raised"} /\ Acyclic(idx)) => ret = _to_schema(arg.t, idx)

-----------------------------------------------------------------------------
\* Claims about what generate_tools_from_graphql leaves behind

Calling == call = "graphql calls"

\* the fields of the included root types of the document, in the order built
FieldsInOrder(doc, only_mutations) ==
    DeclaredFields(doc, "Mutation")
    \o (IF only_mutations THEN <<>> ELSE DeclaredFields(doc, "Query"))

\* the first position at which a record cannot be built, 0 when there is none
FirstRaise(records) ==
    IF \A i \in DOMAIN records : ~Raised(records[i]) THEN 0
    ELSE CHOOSE i \in DOMAIN records :
            /\ Raised(records[i])
            /\ \A j \in 1..(i - 1) : ~Raised(records[j])

\* the outcome of an invocation by the document and the options alone: every
\* schema from its own type and _SCALAR_MAP as written, every description from
\* its own argument or field
OutcomeByValue(doc, only_mutations, fmt) ==
    IF fmt \notin {"openai", "claude"} THEN ValueError
    ELSE LET fields == FieldsInOrder(doc, only_mutations)
             records == [i \in DOMAIN fields |->
                            _build_fn(fields[i], _gql_type_index(doc), fmt)]
         IN  IF FirstRaise(records) = 0 THEN [value |-> records]
             ELSE records[FirstRaise(records)]

\* C14: after any sequence of invocations of generate_tools_from_graphql the
\* input document and _SCALAR_MAP are as they were, and every outcome, of an
\* earlier invocation or a later one, reads as the document and the options
\* alone determine it: a description sits on the schema of its own argument or
\* input field and nowhere else.
C14_NothingShared ==
    Calling =>
        /\ schema = arg.doc
        /\ scalar_map = _SCALAR_MAP
        /\ \A i \in DOMAIN ret :
              SeenOutcome(ret[i].outcome, scalar_map)
                = OutcomeByValue(arg.doc, ret[i].only_mutations, ret[i].fmt)

\* two invocations on a document whose field c has the ID arguments a,
\* described, and b, not described: b has no description in either result
C14_Witness ==
    /\ Calling
    /\ Len(ret) = 2
    /\ \A i \in 1..2 :
          /\ ~Raised(ret[i].outcome)
          /\ ret[i].fmt = "openai"
          /\ Len(ret[i].outcome.value) >= 1
          /\ ret[i].outcome.value[1].name = <<"c">>
          /\ ret[i].outcome.value[1].parameters.properties
               = [a |-> [type |-> "string", description |-> <<"d">>],
                  b |-> [type |-> "string"]]
    /\ scalar_map = _SCALAR_MAP

-----------------------------------------------------------------------------
\* The two generators

Init == InitGraphql \/ InitProto

Next ==
    \/ GqlCheckFmt \/ GqlLoad \/ GqlIndex \/ GqlRoot \/ GqlField \/ GqlRootDone
    \/ GqlReturn
    \/ ProtoCheckImport \/ ProtoCheckFmt \/ ProtoLoad \/ ProtoIndex \/ ProtoService
    \/ ProtoMethod \/ ProtoServiceDone \/ ProtoFileDone \/ ProtoReturn

Spec == Init /\ [][Next]_vars

\* The helpers and the generators together
InitAll == InitFn \/ Init

NextAll == NextFn \/ Next

SpecAll == InitAll /\ [][NextAll]_vars

====
